---- MODULE Spec2Model ----
(***************************************************************************)
(* Verification model of the edash-packager core:                          *)
(*   - MultiSegmentSegmenter (multi_segment_segmenter.cc): DoFinalizeSegment*)
(*     coalescing of the sidx references and WriteSegment;                  *)
(*   - AesCtrEncryptor / AesCbcEncryptor (aes_encryptor.cc);                *)
(*   - the File API as the LocalFile tests use it.                          *)
(* Each subsystem has its own specification (SegSpec, SapSpec, WriteSpec,   *)
(* CtrSpec, CbcSpec, CryptSpec, FileSpec); the variables of the other       *)
(* subsystems stay at their initial values.                                 *)
(***************************************************************************)
EXTENDS Integers, Sequences, FiniteSets, TLC

VARIABLES
  \* ---- MultiSegmentSegmenter ----
  num_subsegments_per_sidx,   \* options().num_subsegments_per_sidx
  segment_template_empty,     \* options().segment_template.empty()
  references,                 \* sidx()->references
  sidx_earliest_presentation_time, \* sidx()->earliest_presentation_time
  fragments,                  \* the pre-generated per-fragment references (history)
  num_segments_,              \* MultiSegmentSegmenter::num_segments_
  seg_pc,                     \* "pending" before DoFinalizeSegment, "done" after
  status,                     \* Status returned by DoFinalizeSegment
  file,                       \* the file WriteSegment opened and what it wrote
  muxer_listener,             \* TRUE when a listener is installed
  listener_calls,             \* calls made on muxer_listener(), in order
  progress_updates,           \* arguments of the UpdateProgress calls, in order
  init_file,                  \* the init segment file DoInitialize opened
  seg_calls,                  \* file, progress and listener calls of the last operation
  write_history,              \* file name and status of every WriteSegment call, in order
  \* ---- AesCtrEncryptor ----
  ctr_pc,                     \* "constructed" until InitializeWithIv, then "ready"
  aes_key,                    \* the key installed by AES_set_encrypt_key
  iv_,                        \* AesCryptor::iv_, the IV given to the last SetIv
  counter_,                   \* AesCtrEncryptor::counter_
  block_offset_,              \* AesCtrEncryptor::block_offset_
  encrypted_counter_,         \* AesCtrEncryptor::encrypted_counter_
  crypt_ok,                   \* return value of the last CryptInternal call
  ctr_text,                   \* the bytes the caller feeds since the last SetIv
  ctr_out,                    \* the bytes produced since the last SetIv
  ctr_calls,                  \* the sizes of the successful calls since the last SetIv
  num_increments,             \* Increment64 calls since the last SetIv
  ctr_first,                  \* what was fed before the second SetIv, and its IV
  ctr_last,                   \* the last CryptInternal call: room too short? *ciphertext_size exact?
  \* ---- AesCbcEncryptor ----
  cbc_pc,                     \* "constructed", "ready", "init_failed", or "aborted" by the CHECK
  cbc_init,                   \* the arguments and result of the last InitializeWithIv
  padding_scheme_,            \* AesCbcEncryptor::padding_scheme_
  constant_iv_flag_,          \* AesCryptor::constant_iv_flag_
  cbc_aes_key,                \* the key installed by AES_set_encrypt_key
  cbc_iv_,                    \* AesCryptor::iv_, the IV given to the last SetIv
  internal_iv_,               \* AesCbcEncryptor::internal_iv_
  cbc_calls,                  \* the encrypt calls since the last SetIv, in order
  cbc_num_calls,              \* encrypt calls since InitializeWithIv
  cbc_set_ivs,                \* SetIv calls after InitializeWithIv
  \* ---- File ----
  io_cache_size,              \* FLAGS_io_cache_size
  local_file,                 \* the test file: bytes on disk, bytes still cached, position
  file_last,                  \* the last File call of the test and what it returned
  file_written,               \* the bytes the test has written, by offset (history)
  file_high                   \* the largest offset a write has reached (history)

seg_vars == <<num_subsegments_per_sidx, segment_template_empty, references,
              sidx_earliest_presentation_time, fragments, num_segments_,
              seg_pc, status, file, muxer_listener, listener_calls,
              progress_updates, init_file, seg_calls, write_history>>

ctr_vars == <<ctr_pc, aes_key, iv_, counter_, block_offset_,
              encrypted_counter_, crypt_ok, ctr_text, ctr_out, ctr_calls,
              num_increments, ctr_first, ctr_last>>

cbc_vars == <<cbc_pc, cbc_init, padding_scheme_, constant_iv_flag_, cbc_aes_key, cbc_iv_,
              internal_iv_, cbc_calls, cbc_num_calls, cbc_set_ivs>>

file_vars == <<io_cache_size, local_file, file_last, file_written, file_high>>

vars == <<seg_vars, ctr_vars, cbc_vars, file_vars>>

----------------------------------------------------------------------------
(* Bounds of the segmenter model *)
MaxFragments == 5        \* fragments per segment, size/duration runs
MaxSapFragments == 3     \* fragments per segment, SAP/presentation-time runs
MaxSubsegments == 3      \* largest num_subsegments_per_sidx
MaxDuration == 2         \* largest subsegment_duration of a fragment
MaxTime == 1             \* largest earliest_presentation_time of a fragment
MaxSapDelta == 1         \* largest sap_delta_time of a fragment
MaxWriteFragments == 2   \* fragments per segment, file-writing runs
MaxSegments == 2         \* segment files written in the file-writing runs

TypeUnknown == 0         \* SegmentReference::TypeUnknown
Type1 == 1               \* SegmentReference::Type1

SubsegmentOptions == -1 .. MaxSubsegments

\* SegmentReference, the fields DoFinalizeSegment reads and writes
SegmentReference(size, duration, ept, sap, delta) ==
  [referenced_size |-> size, subsegment_duration |-> duration,
   earliest_presentation_time |-> ept, sap_type |-> sap,
   sap_delta_time |-> delta]

\* Pre-generated reference of fragment i (1-based) of duration d.  Its
\* referenced_size is 2^(i-1), so that a sum of sizes tells which fragments
\* were added up; the fragment starts with a SAP at time i.
SizeReference(i, d) == SegmentReference(2^(i - 1), d, i, Type1, 0)

\* Pre-generated reference of fragment i with presentation time and SAP
\* fields p = <<earliest_presentation_time, sap_type, sap_delta_time>>
SapReference(i, p) == SegmentReference(2^(i - 1), 1, p[1], p[2], p[3])

SapFields == (0..MaxTime) \X {TypeUnknown, Type1} \X (0..MaxSapDelta)

Min(a, b) == IF a <= b THEN a ELSE b

\* a resize that never shrinks the vector
ResizeNoTruncate(refs, n) ==
  IF n <= Len(refs) THEN refs
  ELSE refs \o [k \in 1..(n - Len(refs)) |->
                  SegmentReference(0, 0, 0, TypeUnknown, 0)]

\* std::vector::resize: truncate, or append value-initialised elements
Resize(refs, n) ==
  IF n <= Len(refs) THEN SubSeq(refs, 1, n)
  ELSE refs \o [k \in 1..(n - Len(refs)) |->
                  SegmentReference(0, 0, 0, TypeUnknown, 0)]

\* body of the if at the end of a group: recompute sap_delta_time
FinishSubsegment(ref, first_sap_time) ==
  IF ref.sap_type # TypeUnknown
    THEN [ref EXCEPT !.sap_delta_time =
            first_sap_time - ref.earliest_presentation_time]
    ELSE ref

\* refs[subseg_index] merged with refs[i]: the first statements of the loop body
MergeReference(sub, ri) ==
  [sub EXCEPT
     !.referenced_size = sub.referenced_size + ri.referenced_size,
     !.subsegment_duration = sub.subsegment_duration + ri.subsegment_duration,
     !.earliest_presentation_time =
        Min(sub.earliest_presentation_time, ri.earliest_presentation_time),
     !.sap_type = IF sub.sap_type = TypeUnknown /\ ri.sap_type # TypeUnknown
                    THEN ri.sap_type ELSE sub.sap_type]

\* The for loop of DoFinalizeSegment.  i, frag_index and subseg_index are the
\* 0-based C++ indices; refs is 1-based, so refs[i] of the code is refs[i + 1].
RECURSIVE CoalesceLoop(_, _, _, _, _, _, _)
CoalesceLoop(refs, i, frag_index, subseg_index, first_sap_time, num_fragments, num_fragments_per_subsegment) ==
  IF i >= num_fragments THEN refs
  ELSE
    LET sub    == refs[subseg_index + 1]
        ri     == refs[i + 1]
        merged == MergeReference(sub, ri)
        fst    == IF sub.sap_type = TypeUnknown /\ ri.sap_type # TypeUnknown
                    THEN ri.sap_delta_time + ri.earliest_presentation_time
                    ELSE first_sap_time
        refs1  == [refs EXCEPT ![subseg_index + 1] = merged]
    IN IF frag_index + 1 >= num_fragments_per_subsegment
         THEN LET refs2 == [refs1 EXCEPT ![subseg_index + 1] =
                              FinishSubsegment(merged, fst)]
                  i2    == i + 1
              IN IF i2 >= num_fragments THEN refs2
                 ELSE LET refs3 == [refs2 EXCEPT ![subseg_index + 2] =
                                      refs2[i2 + 1]]
                      IN CoalesceLoop(refs3, i2 + 1, 1, subseg_index + 1,
                           refs3[i2 + 1].sap_delta_time +
                             refs3[i2 + 1].earliest_presentation_time,
                           num_fragments, num_fragments_per_subsegment)
         ELSE CoalesceLoop(refs1, i + 1, frag_index + 1, subseg_index, fst,
                           num_fragments, num_fragments_per_subsegment)

\* num_fragments_per_subsegment = (num_fragments - 1) / N + 1
NumFragmentsPerSubsegment(num_fragments, n) == (num_fragments - 1) \div n + 1

\* the coalescing run even when every subsegment has one fragment
CoalescedReferencesNoSkip(refs, n) ==
  IF n <= 0 THEN refs
  ELSE Resize(
         CoalesceLoop(refs, 1, 0, 0,
                      refs[1].sap_delta_time + refs[1].earliest_presentation_time,
                      Len(refs), NumFragmentsPerSubsegment(Len(refs), n)),
         n)

\* The sidx references DoFinalizeSegment hands to WriteSegment
CoalescedReferences(refs, n) ==
  IF n <= 0 THEN refs
  ELSE IF NumFragmentsPerSubsegment(Len(refs), n) <= 1 THEN refs
  ELSE Resize(
         CoalesceLoop(refs, 1, 0, 0,
                      refs[1].sap_delta_time + refs[1].earliest_presentation_time,
                      Len(refs), NumFragmentsPerSubsegment(Len(refs), n)),
         n)

RECURSIVE SumDuration(_)
\* segment_duration: the sum of subsegment_duration over the references
SumDuration(refs) ==
  IF refs = <<>> THEN 0
  ELSE refs[1].subsegment_duration + SumDuration(Tail(refs))

NoName == [kind |-> "none", time |-> 0, number |-> 0]

\* options().output_file_name
OutputFileName == [kind |-> "output_file_name", time |-> 0, number |-> 0]

NoFile ==
  [name |-> NoName, mode |-> "none", data |-> <<>>, closed |-> FALSE,
   bytes |-> 0]

\* GetSegmentName(segment_template, time, number, bandwidth)
GetSegmentName(time, number) ==
  [kind |-> "segment", time |-> time, number |-> number]

\* Status::OK and the error statuses of the file operations
OK == "OK"
CannotOpenForWrite == "FILE_FAILURE: Cannot open file for write"
CannotOpenForAppend == "FILE_FAILURE: Cannot open file for append"
HeaderWriteError == "FILE_FAILURE: buffer->WriteToFile"
FragmentWriteError == "FILE_FAILURE: fragment_buffer()->WriteToFile"

\* a call made by the segmenter and whether it succeeded
Call(name, ok) == [call |-> name, ok |-> ok]

\* Size in bytes of a serialized box: styp and ftyp with two compatible
\* brands, moov, and sidx with its 12 bytes per reference
BoxSize(box, refs) ==
  IF box = "styp" THEN 24
  ELSE IF box = "ftyp" THEN 24
  ELSE IF box = "moov" THEN 100
  ELSE 32 + 12 * Len(refs)

RECURSIVE BufferSize(_, _)
\* buffer->Size() of a buffer the boxes were written to
BufferSize(buffer, refs) ==
  IF buffer = <<>> THEN 0
  ELSE BoxSize(buffer[1], refs) + BufferSize(Tail(buffer), refs)

RECURSIVE FragmentBufferSize(_)
\* fragment_buffer()->Size(): the moof and mdat boxes of the fragments, whose
\* sizes are the referenced_size of the pre-generated references
FragmentBufferSize(frags) ==
  IF frags = <<>> THEN 0
  ELSE frags[1].referenced_size + FragmentBufferSize(Tail(frags))

\* a sidx written for every value but 0
SidxWrittenWhenPositive(n) == n > 0

\* the condition under which WriteSegment writes the sidx box to the buffer
SidxWritten(n) == n >= 0

\* a segment_size that leaves out the header buffer
SegmentSizeOfFragments(buffer_size, fragment_size) == fragment_size

\* segment_size = buffer->Size() + fragment_buffer()->Size()
SegmentSize(buffer_size, fragment_size) == buffer_size + fragment_size

\* the fragment buffer written whatever the header write returned
FragmentWriteAlways(header_status) == TRUE

\* if (status.ok()) status = fragment_buffer()->WriteToFile(file): whether the
\* second write is made
FragmentWriteAttempted(header_status) == header_status = OK

\* a failing Close reported as the status
StatusAfterCloseReported(st, close_ok) ==
  IF close_ok THEN st ELSE "FILE_FAILURE: Close"

\* if (!file->Close()) LOG(WARNING): the status is what it was
StatusAfterClose(st, close_ok) == st

\* progress and listener reported whatever the status is
ReportsAlways(st) == TRUE

\* if (!status.ok()) return status: whether UpdateProgress and the listener
\* are reached
Reports(st) == st = OK

\* a segment number consumed only by a call that opened its file
NumSegmentsAfterOpened(segs, open_ok) == IF open_ok THEN segs + 1 ELSE segs

\* num_segments_++ in the argument list of GetSegmentName: the number is
\* consumed before File::Open is tried
NumSegmentsAfter(segs, open_ok) == segs + 1

\* every segment file opened for append
OpenModeAppend(template_empty) == "a"

\* the mode given to File::Open: append to the output file without a segment
\* template, truncating write to the segment's own file with one
OpenMode(template_empty) == IF template_empty THEN "a" ELSE "w"

\* WriteSegment: the values it leaves behind, given how the file system
\* answers (open_ok: File::Open succeeded, header_ok / fragment_ok: the two
\* WriteToFile calls succeed when made, close_ok: Close succeeded).
WriteSegment(refs, ept, segs, open_ok, header_ok, fragment_ok, close_ok) ==
  LET file_name == IF segment_template_empty THEN OutputFileName
                   ELSE GetSegmentName(ept, segs)
      segs1     == IF segment_template_empty THEN segs
                   ELSE NumSegmentsAfter(segs, open_ok)
      mode      == OpenMode(segment_template_empty)
      buffer    == (IF segment_template_empty THEN <<>> ELSE <<"styp">>) \o
                   (IF SidxWritten(num_subsegments_per_sidx) THEN <<"sidx">>
                    ELSE <<>>)
      segment_size == SegmentSize(BufferSize(buffer, refs),
                                  FragmentBufferSize(fragments))
      header_status == IF header_ok THEN OK ELSE HeaderWriteError
      second    == FragmentWriteAttempted(header_status)
      write_status == IF second
                      THEN (IF fragment_ok THEN OK ELSE FragmentWriteError)
                      ELSE header_status
      st        == StatusAfterClose(write_status, close_ok)
      written   == (IF header_ok THEN buffer ELSE <<>>) \o
                   (IF second /\ fragment_ok THEN <<"fragment">> ELSE <<>>)
      bytes     == (IF header_ok THEN BufferSize(buffer, refs) ELSE 0) +
                   (IF second /\ fragment_ok
                    THEN FragmentBufferSize(fragments) ELSE 0)
      duration  == SumDuration(refs)
      notified  == Reports(st) /\ muxer_listener
  IN IF ~open_ok
       THEN [num_segments |-> segs1, file_name |-> file_name,
             status |-> IF segment_template_empty THEN CannotOpenForAppend
                        ELSE CannotOpenForWrite,
             file |-> NoFile, listener |-> <<>>, progress |-> <<>>,
             calls |-> <<Call("File::Open", FALSE)>>]
       ELSE [num_segments |-> segs1, file_name |-> file_name, status |-> st,
             file |-> [name |-> file_name, mode |-> mode, data |-> written,
                       closed |-> close_ok, bytes |-> bytes],
             progress |-> IF Reports(st) THEN <<duration>> ELSE <<>>,
             listener |->
               IF notified
                 THEN << [call |-> "OnSampleDurationReady"],
                         [call |-> "OnNewSegment", file_name |-> file_name,
                          start_time |-> ept, duration |-> duration,
                          size |-> segment_size] >>
                 ELSE <<>>,
             calls |->
               <<Call("File::Open", TRUE),
                 Call("buffer->WriteToFile", header_ok)>> \o
               (IF second
                THEN <<Call("fragment_buffer()->WriteToFile", fragment_ok)>>
                ELSE <<>>) \o
               <<Call("File::Close", close_ok)>> \o
               (IF Reports(st) THEN <<Call("UpdateProgress", TRUE)>>
                ELSE <<>>) \o
               (IF notified
                THEN <<Call("OnSampleDurationReady", TRUE),
                       Call("OnNewSegment", TRUE)>>
                ELSE <<>>)]

\* DoInitialize: the values it leaves behind, given how the file system
\* answers
InitSegment(open_ok, write_ok, close_ok) ==
  IF ~open_ok
    THEN [status |-> CannotOpenForWrite, file |-> NoFile,
          calls |-> <<Call("File::Open", FALSE)>>]
    ELSE [status |-> StatusAfterClose(IF write_ok THEN OK ELSE HeaderWriteError,
                                      close_ok),
          file |-> [name |-> OutputFileName, mode |-> "w",
                    data |-> IF write_ok THEN <<"ftyp", "moov">> ELSE <<>>,
                    closed |-> close_ok,
                    bytes |-> IF write_ok
                              THEN BufferSize(<<"ftyp", "moov">>, <<>>) ELSE 0],
          calls |-> <<Call("File::Open", TRUE),
                      Call("buffer->WriteToFile", write_ok),
                      Call("File::Close", close_ok)>>]

\* MultiSegmentSegmenter::DoInitialize
DoInitialize ==
  /\ seg_pc = "constructed"
  /\ \E open_ok, write_ok, close_ok \in BOOLEAN :
       /\ open_ok \/ (write_ok /\ close_ok)
       /\ LET r == InitSegment(open_ok, write_ok, close_ok)
          IN /\ status' = r.status
             /\ init_file' = r.file
             /\ seg_calls' = r.calls
             /\ seg_pc' = IF r.status = OK THEN "initialized" ELSE "failed"
  /\ UNCHANGED <<num_subsegments_per_sidx, segment_template_empty, references,
                 sidx_earliest_presentation_time, fragments, num_segments_,
                 file, muxer_listener, listener_calls, progress_updates,
                 write_history>>

\* MultiSegmentSegmenter::DoFinalizeSegment, WriteSegment included
DoFinalizeSegment ==
  /\ seg_pc = "pending"
  /\ \E open_ok, header_ok, fragment_ok, close_ok \in BOOLEAN :
       /\ open_ok \/ (header_ok /\ fragment_ok /\ close_ok)
       /\ LET refs == CoalescedReferences(references, num_subsegments_per_sidx)
              ept  == refs[1].earliest_presentation_time
              w    == WriteSegment(refs, ept, num_segments_,
                                   open_ok, header_ok, fragment_ok, close_ok)
          IN /\ references' = refs
             /\ sidx_earliest_presentation_time' = ept
             /\ num_segments_' = w.num_segments
             /\ status' = w.status
             /\ file' = w.file
             /\ listener_calls' = listener_calls \o w.listener
             /\ progress_updates' = progress_updates \o w.progress
             /\ seg_calls' = w.calls
             /\ write_history' = Append(write_history,
                                        [file_name |-> w.file_name,
                                         status |-> w.status])
  /\ seg_pc' = "done"
  /\ UNCHANGED <<num_subsegments_per_sidx, segment_template_empty, fragments,
                 muxer_listener, init_file>>

\* State after the MultiSegmentSegmenter constructor, with the references
\* refs of one segment pre-generated (one per fragment).
SegmenterInit(refs) ==
  /\ num_subsegments_per_sidx \in SubsegmentOptions
  /\ segment_template_empty \in BOOLEAN
  /\ references = refs
  /\ fragments = refs
  /\ sidx_earliest_presentation_time = 0
  /\ num_segments_ = 0
  /\ seg_pc = "pending"
  /\ status = "none"
  /\ file = NoFile
  /\ muxer_listener \in BOOLEAN
  /\ listener_calls = <<>>
  /\ progress_updates = <<>>
  /\ init_file = InitSegment(TRUE, TRUE, TRUE).file
  /\ seg_calls = <<>>
  /\ write_history = <<>>

\* State after the MultiSegmentSegmenter constructor: nothing written, no
\* reference generated yet
SegmenterConstructed ==
  /\ num_subsegments_per_sidx \in SubsegmentOptions
  /\ segment_template_empty \in BOOLEAN
  /\ references = <<>>
  /\ fragments = <<>>
  /\ sidx_earliest_presentation_time = 0
  /\ num_segments_ = 0
  /\ seg_pc = "constructed"
  /\ status = "none"
  /\ file = NoFile
  /\ muxer_listener \in BOOLEAN
  /\ listener_calls = <<>>
  /\ progress_updates = <<>>
  /\ init_file = NoFile
  /\ seg_calls = <<>>
  /\ write_history = <<>>

\* The fragments of the next segment are finalized, one reference each, all
\* of duration d; the records of the calls start afresh.  The error of a
\* segment is returned to the caller, who may go on with the next segment.
NewSegment ==
  /\ seg_pc \in {"initialized", "done"}
  /\ Len(write_history) < MaxSegments
  /\ \E f \in 1..MaxWriteFragments, d \in 1..MaxDuration :
       /\ references' = [i \in 1..f |-> SizeReference(i, d)]
       /\ fragments' = [i \in 1..f |-> SizeReference(i, d)]
  /\ seg_pc' = "pending"
  /\ file' = NoFile
  /\ listener_calls' = <<>>
  /\ progress_updates' = <<>>
  /\ seg_calls' = <<>>
  /\ UNCHANGED <<num_subsegments_per_sidx, segment_template_empty,
                 sidx_earliest_presentation_time, num_segments_, status,
                 muxer_listener, init_file, write_history>>

\* the segmenter before any segment: no references yet
SegmenterIdle ==
  /\ num_subsegments_per_sidx = 0
  /\ segment_template_empty = FALSE
  /\ references = <<>>
  /\ fragments = <<>>
  /\ sidx_earliest_presentation_time = 0
  /\ num_segments_ = 0
  /\ seg_pc = "idle"
  /\ status = "none"
  /\ file = NoFile
  /\ muxer_listener = FALSE
  /\ listener_calls = <<>>
  /\ progress_updates = <<>>
  /\ init_file = NoFile
  /\ seg_calls = <<>>
  /\ write_history = <<>>

----------------------------------------------------------------------------
(***************************************************************************)
(* The File API as LocalFileTest uses it.  The implementation behind       *)
(* File::Open (the local file and its I/O cache of FLAGS_io_cache_size      *)
(* bytes) is modelled from the specification: open, read, write, seek,      *)
(* size and close with buffered I/O.  The calls and the values the tests    *)
(* expect of them are taken from the tests.                                 *)
(***************************************************************************)

MaxFileSize == 4         \* offsets 0..MaxFileSize (kFinalFileSize of the test)

Max(a, b) == IF a >= b THEN a ELSE b

\* FLAGS_io_cache_size: smaller than the file, as large, larger
CacheSizes == 1..(MaxFileSize + 1)

\* the bytes c laid over the bytes d from offset off on; bytes never written
\* behind the old end read as zero
Overlay(d, c, off) ==
  IF c = <<>> THEN d
  ELSE [i \in 1..Max(Len(d), off + Len(c)) |->
          IF i > off /\ i <= off + Len(c) THEN c[i - off]
          ELSE IF i <= Len(d) THEN d[i] ELSE 0]

\* no file yet (the test's SetUp and ReadNotExist)
NoLocalFile ==
  [exists |-> FALSE, mode |-> "closed", disk |-> <<>>, cache |-> <<>>,
   cache_offset |-> 0, position |-> 0]

\* the cached bytes go to the disk
FileFlush(f) ==
  [f EXCEPT !.disk = Overlay(f.disk, f.cache, f.cache_offset),
            !.cache = <<>>, !.cache_offset = 0]

\* File::Open(name, mode): "w" truncates, "r" reads what is there
FileOpen(f, mode) ==
  [exists |-> TRUE, mode |-> mode,
   disk |-> IF mode = "w" THEN <<>> ELSE f.disk,
   cache |-> <<>>, cache_offset |-> 0, position |-> 0]

\* File::Write(buffer, length): the bytes go to the cache, which is written
\* out when it holds cache_size bytes
FileWrite(f, bytes, cache_size) ==
  LET g == [f EXCEPT !.cache = f.cache \o bytes,
                     !.cache_offset = IF f.cache = <<>> THEN f.position
                                      ELSE f.cache_offset,
                     !.position = f.position + Len(bytes)]
  IN IF Len(g.cache) >= cache_size THEN FileFlush(g) ELSE g

\* File::Seek(position): the cache is written out first
FileSeek(f, offset) == [FileFlush(f) EXCEPT !.position = offset]

\* File::Tell(&position)
FileTell(f) == f.position

\* File::Size(): cached bytes count
FileSize(f) == Len(Overlay(f.disk, f.cache, f.cache_offset))

\* File::Read(buffer, length): the bytes read and the file afterwards
FileRead(f, length) ==
  LET count == Max(0, Min(length, Len(f.disk) - f.position))
  IN [data |-> SubSeq(f.disk, f.position + 1, f.position + count),
      file |-> [f EXCEPT !.position = f.position + count]]

\* File::Close()
FileClose(f) == [FileFlush(f) EXCEPT !.mode = "closed", !.position = 0]

\* The buffers the test writes at the position it is at: two bytes of the
\* zeroed buffer, the one byte `offset`, the zeroed buffer of the initial
\* write
TestBuffers(position) ==
  { <<0, 0>>, <<position % 256>>, [i \in 1..(MaxFileSize \div 2) |-> 0] }

\* the lengths the tests read: one byte, half the file, the whole file
ReadLengths == {1, MaxFileSize \div 2, MaxFileSize}

\* EXPECT_TRUE(file->Seek(offset)); Tell; EXPECT_EQ(offset, position)
ExpectedTellAfterSeek(offset) == offset

\* EXPECT_EQ(2u, file->Write(buffer.data(), 2u))
ExpectedWriteResult(length) == length

\* a position that a write leaves where it was
ExpectedTellAfterWriteSame(offset, length) == offset

\* Tell; EXPECT_EQ(offset + 2u, position) after a write of two bytes
ExpectedTellAfterWrite(offset, length) == offset + length

\* a read that always returns the length asked for
ExpectedReadCountFull(size, position, length) == length

\* Read_And_Eof: a read returns the bytes that remain when more are asked
\* for, and 0 at the end of the file
ExpectedReadCount(size, position, length) ==
  IF position >= size THEN 0
  ELSE IF length <= size - position THEN length
  ELSE size - position

NoFileCall ==
  [op |-> "none", arg |-> 0, before |-> 0, ok |-> TRUE, count |-> 0,
   tell |-> 0, data |-> <<>>]

FileCall(op, arg, before, ok, count, tell, data) ==
  [op |-> op, arg |-> arg, before |-> before, ok |-> ok, count |-> count,
   tell |-> tell, data |-> data]

\* LocalFileTest::SetUp
LocalFileSetUp ==
  /\ local_file = NoLocalFile
  /\ file_last = NoFileCall
  /\ file_written = <<>>
  /\ file_high = 0

\* File::Open(name, "w")
LocalFileOpenWrite ==
  /\ local_file.mode = "closed"
  /\ local_file' = FileOpen(local_file, "w")
  /\ file_last' = FileCall("Open", 0, 0, TRUE, 0, 0, <<>>)
  /\ file_written' = <<>>
  /\ file_high' = 0
  /\ UNCHANGED io_cache_size

\* file->Write(...) followed by Tell
LocalFileWrite ==
  /\ local_file.mode = "w"
  /\ \E bytes \in TestBuffers(local_file.position) :
       /\ local_file.position + Len(bytes) <= MaxFileSize
       /\ LET f == FileWrite(local_file, bytes, io_cache_size)
          IN /\ local_file' = f
             /\ file_last' = FileCall("Write", Len(bytes), local_file.position,
                                      TRUE, Len(bytes), FileTell(f), bytes)
             /\ file_written' = Overlay(file_written, bytes,
                                        local_file.position)
             /\ file_high' = Max(file_high,
                                 local_file.position + Len(bytes))
  /\ UNCHANGED io_cache_size

\* file->Seek(offset) followed by Tell
LocalFileSeek ==
  /\ local_file.mode \in {"w", "r"}
  /\ \E offset \in 0..MaxFileSize :
       LET f == FileSeek(local_file, offset)
       IN /\ local_file' = f
          /\ file_last' = FileCall("Seek", offset, local_file.position, TRUE,
                                   0, FileTell(f), <<>>)
  /\ UNCHANGED <<io_cache_size, file_written, file_high>>

\* file->Size()
LocalFileSize ==
  /\ local_file.mode \in {"w", "r"}
  /\ file_last' = FileCall("Size", 0, local_file.position, TRUE,
                           FileSize(local_file), FileTell(local_file), <<>>)
  /\ UNCHANGED <<io_cache_size, local_file, file_written, file_high>>

\* file->Close()
LocalFileClose ==
  /\ local_file.mode \in {"w", "r"}
  /\ local_file' = FileClose(local_file)
  /\ file_last' = FileCall("Close", 0, local_file.position, TRUE, 0, 0, <<>>)
  /\ UNCHANGED <<io_cache_size, file_written, file_high>>

\* File::Open(name, "r") of the file written before
LocalFileOpenRead ==
  /\ local_file.mode = "closed"
  /\ local_file.exists
  /\ local_file' = FileOpen(local_file, "r")
  /\ file_last' = FileCall("Open", 0, 0, TRUE, 0, 0, <<>>)
  /\ UNCHANGED <<io_cache_size, file_written, file_high>>

\* file->Read(buffer, length) followed by Tell
LocalFileRead ==
  /\ local_file.mode = "r"
  /\ \E length \in ReadLengths :
       LET r == FileRead(local_file, length)
       IN /\ local_file' = r.file
          /\ file_last' = FileCall("Read", length, local_file.position, TRUE,
                                   Len(r.data), FileTell(r.file), r.data)
  /\ UNCHANGED <<io_cache_size, file_written, file_high>>

----------------------------------------------------------------------------
(* AesCtrEncryptor *)

AES_BLOCK_SIZE == 16

MaxCalls == 3            \* successful encrypt calls after InitializeWithIv

\* plaintext_size of one call: empty, inside a block, a block, more than one
ChunkSizes == {0, 1, 16, 17}

TextLen == 17 * MaxCalls

Byte == 0..255

RECURSIVE Xor(_, _)
\* a ^ b on bytes
Xor(a, b) ==
  IF a = 0 THEN b
  ELSE IF b = 0 THEN a
  ELSE ((a + b) % 2) + 2 * Xor(a \div 2, b \div 2)

\* Weighted sum of the bytes of an 8-byte half block
AesMix(h) ==
  h[1] + 3 * h[2] + 5 * h[3] + 7 * h[4] + 11 * h[5] + 13 * h[6] + 17 * h[7]
    + 19 * h[8]

\* One Feistel round: add a value derived from the other half to every byte
AesRound(half, m, c) ==
  [j \in 1..8 |-> (half[j] + (2 * j + 1) * m + c) % 256]

AesRound3(l1, r1) == AesRound(l1, AesMix(r1), 3) \o r1

AesRound2(l1, r) == AesRound3(l1, AesRound(r, AesMix(l1), 2))

AesRound1(l, r) == AesRound2(AesRound(l, AesMix(r), 1), r)

\* key whitening of a block
AesAddKey(key, block) ==
  [j \in 1..AES_BLOCK_SIZE |->
     (block[j] + key[((j - 1) % Len(key)) + 1] + Len(key)) % 256]

\* AES_encrypt(in, out, key): the block cipher of the crypto library, stood in
\* for by a keyed bijection on 16-byte blocks (key whitening, then three
\* Feistel rounds) in which every output byte depends on every input byte.
AES_encrypt(key, block) ==
  AesRound1(SubSeq(AesAddKey(key, block), 1, 8),
            SubSeq(AesAddKey(key, block), 9, 16))

RECURSIVE Increment64Loop(_, _)
\* the loop of Increment64 from index i (0-based) down to 0
Increment64Loop(counter, i) ==
  IF i < 0 THEN counter
  ELSE LET c == [counter EXCEPT ![i + 1] = (counter[i + 1] + 1) % 256]
       IN IF c[i + 1] # 0 THEN c ELSE Increment64Loop(c, i - 1)

\* an increment that drops the carry out of the last byte
Increment64NoCarry(counter) ==
  [counter EXCEPT ![8] = (counter[8] + 1) % 256]

\* Increment64(counter): increment an 8-byte big-endian counter by 1
Increment64(counter) == Increment64Loop(counter, 7)

\* std::vector<uint8_t>::resize(n, 0)
ResizeBytes(v, n) ==
  IF n <= Len(v) THEN SubSeq(v, 1, n)
  ELSE v \o [k \in 1..(n - Len(v)) |-> 0]

\* the state CryptInternal works on
CtrState == [counter_ |-> counter_, block_offset_ |-> block_offset_,
             encrypted_counter_ |-> encrypted_counter_]

\* a loop body that increments the counter for every byte
CtrCryptByteIncrementAlways(st, key, b) ==
  LET fresh == st.block_offset_ = 0
      enc   == IF fresh THEN AES_encrypt(key, st.counter_)
               ELSE st.encrypted_counter_
  IN [st EXCEPT
        !.counter_ = SubSeq(st.counter_, 1, 8) \o
                     Increment64(SubSeq(st.counter_, 9, 16)),
        !.encrypted_counter_ = enc,
        !.block_offset_ = (st.block_offset_ + 1) % AES_BLOCK_SIZE,
        !.ciphertext = Append(st.ciphertext, Xor(b, enc[st.block_offset_ + 1])),
        !.increments = st.increments + 1]

\* one iteration of the for loop of AesCtrEncryptor::CryptInternal; st also
\* carries the ciphertext written so far and the number of increments
CtrCryptByte(st, key, b) ==
  LET fresh == st.block_offset_ = 0
      enc   == IF fresh THEN AES_encrypt(key, st.counter_)
               ELSE st.encrypted_counter_
      cnt   == IF fresh
                 THEN SubSeq(st.counter_, 1, 8) \o
                      Increment64(SubSeq(st.counter_, 9, 16))
                 ELSE st.counter_
  IN [st EXCEPT
        !.counter_ = cnt,
        !.encrypted_counter_ = enc,
        !.block_offset_ = (st.block_offset_ + 1) % AES_BLOCK_SIZE,
        !.ciphertext = Append(st.ciphertext, Xor(b, enc[st.block_offset_ + 1])),
        !.increments = st.increments + (IF fresh THEN 1 ELSE 0)]

RECURSIVE CtrCryptLoop(_, _, _, _)
\* the for loop of AesCtrEncryptor::CryptInternal from byte i (1-based) on
CtrCryptLoop(st, key, plaintext, i) ==
  IF i > Len(plaintext) THEN st
  ELSE CtrCryptLoop(CtrCryptByte(st, key, plaintext[i]), key, plaintext, i + 1)

\* a CryptInternal that starts every call at the beginning of a keystream block
CtrCryptInternalRealign(st, key, plaintext, ciphertext_size) ==
  IF ciphertext_size < Len(plaintext)
    THEN [st EXCEPT !.ok = FALSE, !.ciphertext_size = ciphertext_size]
    ELSE [CtrCryptLoop([st EXCEPT !.block_offset_ = 0], key, plaintext, 1)
            EXCEPT !.ok = TRUE, !.ciphertext_size = Len(plaintext)]

\* a CryptInternal that does not look at the room the caller gives
CtrCryptInternalNoSizeCheck(st, key, plaintext, ciphertext_size) ==
  [CtrCryptLoop(st, key, plaintext, 1)
     EXCEPT !.ok = TRUE, !.ciphertext_size = Len(plaintext)]

\* AesCtrEncryptor::CryptInternal(plaintext, plaintext_size, ciphertext,
\* ciphertext_size); st has the fields of CtrState, ciphertext = <<>> and
\* increments = 0, and carries *ciphertext_size back to the caller
CtrCryptInternal(st, key, plaintext, ciphertext_size) ==
  IF ciphertext_size < Len(plaintext)
    THEN [st EXCEPT !.ok = FALSE, !.ciphertext_size = ciphertext_size]
    ELSE [CtrCryptLoop(st, key, plaintext, 1)
            EXCEPT !.ok = TRUE, !.ciphertext_size = Len(plaintext)]

\* a SetIvInternal that keeps the offset inside the keystream block
CtrSetIvInternalKeepOffset(iv, offset) ==
  [block_offset_ |-> offset, counter_ |-> ResizeBytes(iv, AES_BLOCK_SIZE)]

\* AesCtrEncryptor::SetIvInternal, for iv() = iv and the current block_offset_
CtrSetIvInternal(iv, offset) ==
  [block_offset_ |-> 0, counter_ |-> ResizeBytes(iv, AES_BLOCK_SIZE)]

\* input of a CryptInternal call on the state s
CryptInput(s) ==
  [counter_ |-> s.counter_, block_offset_ |-> s.block_offset_,
   encrypted_counter_ |-> s.encrypted_counter_,
   ciphertext |-> <<>>, increments |-> 0, ok |-> TRUE, ciphertext_size |-> 0]

ZeroBlock == [j \in 1..AES_BLOCK_SIZE |-> 0]

\* keys of 16 bytes
Keys == { ZeroBlock, [j \in 1..AES_BLOCK_SIZE |-> 16 * j - 1] }

\* IVs: an 8-byte IV; a 16-byte IV whose counter half is 0xFFFFFFFFFFFFFFFF;
\* a 16-byte IV whose counter half ends in 0xFFFF
Ivs ==
  { [j \in 1..8 |-> j],
    [j \in 1..16 |-> IF j <= 8 THEN j - 1 ELSE 255],
    [j \in 1..16 |-> IF j <= 8 THEN 255 ELSE IF j <= 14 THEN 0 ELSE 255] }

\* plaintexts: zero bytes, and the bytes 0, 1, 2, ... of the file tests
Plaintexts ==
  { [j \in 1..TextLen |-> 0], [j \in 1..TextLen |-> (j - 1) % 256] }

NoFirst == [iv |-> <<>>, text |-> <<>>, calls |-> 0]

\* no CryptInternal call made yet
NoCall == [called |-> FALSE, short |-> FALSE, exact |-> FALSE]

\* the AesCtrEncryptor constructor
CtrConstructed ==
  /\ ctr_pc = "constructed"
  /\ aes_key = <<>>
  /\ iv_ = <<>>
  /\ counter_ = <<>>
  /\ block_offset_ = 0
  /\ encrypted_counter_ = ZeroBlock
  /\ crypt_ok = TRUE
  /\ ctr_text = <<>>
  /\ ctr_out = <<>>
  /\ ctr_calls = <<>>
  /\ num_increments = 0
  /\ ctr_first = NoFirst
  /\ ctr_last = NoCall

\* AesCryptor::SetIv(iv) on the counter-mode encryptor: store the IV and call
\* SetIvInternal
SetIv(iv) ==
  LET s == CtrSetIvInternal(iv, block_offset_)
  IN /\ iv_' = iv
     /\ counter_' = s.counter_
     /\ block_offset_' = s.block_offset_
     /\ num_increments' = 0
     /\ ctr_out' = <<>>
     /\ ctr_calls' = <<>>

\* AesEncryptor::InitializeWithIv(key, iv) with a key of a valid size
CtrInitializeWithIv ==
  /\ ctr_pc = "constructed"
  /\ \E key \in Keys, iv \in Ivs, text \in Plaintexts :
       /\ aes_key' = key
       /\ SetIv(iv)
       /\ ctr_text' = text
  /\ ctr_pc' = "ready"
  /\ UNCHANGED <<encrypted_counter_, crypt_ok, ctr_first, ctr_last>>

\* One call of CryptInternal on the next plaintext_size bytes of the caller's
\* text, with room for ciphertext_size bytes
CtrEncrypt ==
  /\ ctr_pc = "ready"
  /\ Len(ctr_calls) + ctr_first.calls < MaxCalls
  /\ \E plaintext_size \in ChunkSizes, ciphertext_size \in 0..(TextLen + 1) :
       /\ Len(ctr_out) + plaintext_size <= Len(ctr_text)
       /\ ciphertext_size \in {plaintext_size - 1, plaintext_size,
                               plaintext_size + 1}
       /\ LET plaintext == SubSeq(ctr_text, Len(ctr_out) + 1,
                                  Len(ctr_out) + plaintext_size)
              r == CtrCryptInternal(CryptInput(CtrState), aes_key, plaintext,
                                    ciphertext_size)
          IN /\ crypt_ok' = r.ok
             /\ ctr_last' = [called |-> TRUE,
                             short |-> ciphertext_size < plaintext_size,
                             exact |-> r.ciphertext_size = plaintext_size]
             /\ counter_' = r.counter_
             /\ block_offset_' = r.block_offset_
             /\ encrypted_counter_' = r.encrypted_counter_
             /\ ctr_out' = ctr_out \o r.ciphertext
             /\ num_increments' = num_increments + r.increments
             /\ ctr_calls' = IF r.ok THEN Append(ctr_calls, plaintext_size)
                             ELSE ctr_calls
  /\ UNCHANGED <<ctr_pc, aes_key, iv_, ctr_text, ctr_first>>

\* SetIv with a new IV after some text was processed; from then on the caller
\* feeds the bytes produced so far
CtrSetIv ==
  /\ ctr_pc = "ready"
  /\ ctr_first = NoFirst
  /\ ctr_out # <<>>
  /\ \E iv \in Ivs : SetIv(iv)
  /\ ctr_first' = [iv |-> iv_, text |-> SubSeq(ctr_text, 1, Len(ctr_out)),
                   calls |-> Len(ctr_calls)]
  /\ ctr_text' = ctr_out
  /\ UNCHANGED <<ctr_pc, aes_key, encrypted_counter_, crypt_ok, ctr_last>>


(***************************************************************************)
(* AesCbcEncryptor *)

MaxCbcCalls == 2         \* encrypt calls after InitializeWithIv
MaxCryptCalls == 2       \* successful counter-mode encrypt calls in CryptSpec
MaxCbcCryptCalls == 1    \* CBC encrypt calls in CryptSpec

kNoPadding == "kNoPadding"
kPkcs5Padding == "kPkcs5Padding"
kCtsPadding == "kCtsPadding"

CbcPaddingScheme == {kNoPadding, kPkcs5Padding, kCtsPadding}

kDontUseConstantIv == "kDontUseConstantIv"
kUseConstantIv == "kUseConstantIv"

ConstantIvFlag == {kDontUseConstantIv, kUseConstantIv}

\* a ^ b on blocks
XorBlock(a, b) == [j \in 1..AES_BLOCK_SIZE |-> Xor(a[j], b[j])]

RECURSIVE CbcLoop(_, _, _, _)
\* The blocks of AES_cbc_encrypt: every block is XORed with the previous
\* cipher block (the first with ivec) and encrypted
CbcLoop(in, key, ivec, out) ==
  IF Len(in) < AES_BLOCK_SIZE THEN [out |-> out, ivec |-> ivec]
  ELSE LET c == AES_encrypt(key, XorBlock(SubSeq(in, 1, AES_BLOCK_SIZE), ivec))
       IN CbcLoop(SubSeq(in, AES_BLOCK_SIZE + 1, Len(in)), key, c, out \o c)

\* AES_cbc_encrypt taking ivec by value: the caller's IV is left as it was
AES_cbc_encryptIvByValue(in, key, ivec) ==
  [CbcLoop(in, key, ivec, <<>>) EXCEPT !.ivec = ivec]

\* AES_cbc_encrypt(in, out, length, key, ivec, AES_ENCRYPT) on whole blocks:
\* ivec is updated in place to the last cipher block
AES_cbc_encrypt(in, key, ivec) == CbcLoop(in, key, ivec, <<>>)

\* std::vector<uint8_t>::resize(n, c)
ResizeBytesFill(v, n, c) ==
  IF n <= Len(v) THEN SubSeq(v, 1, n)
  ELSE v \o [k \in 1..(n - Len(v)) |-> c]

\* no padding block added to a plaintext that ends on a block boundary
NumPaddingBytesToBoundary(padding_scheme, size) ==
  IF padding_scheme = kPkcs5Padding
  THEN (AES_BLOCK_SIZE - (size % AES_BLOCK_SIZE)) % AES_BLOCK_SIZE
  ELSE 0

\* padding bytes counted for every scheme that pads
NumPaddingBytesAlsoCts(padding_scheme, size) ==
  IF padding_scheme # kNoPadding
  THEN AES_BLOCK_SIZE - (size % AES_BLOCK_SIZE)
  ELSE 0

\* AesCbcEncryptor::NumPaddingBytes(size)
NumPaddingBytes(padding_scheme, size) ==
  IF padding_scheme = kPkcs5Padding
  THEN AES_BLOCK_SIZE - (size % AES_BLOCK_SIZE)
  ELSE 0

\* what CryptInternal returns, writes to the ciphertext buffer, stores in
\* *ciphertext_size and leaves in internal_iv_
CbcResult(ok, ciphertext, ciphertext_size, internal_iv) ==
  [ok |-> ok, ciphertext |-> ciphertext, ciphertext_size |-> ciphertext_size,
   internal_iv_ |-> internal_iv]

\* the encrypted residual block appended after the CBC blocks, cut to the
\* residual size
CtsOutputNoSwap(cbc_out, residual_cipher, cbc_size, residual_block_size) ==
  cbc_out \o SubSeq(residual_cipher, 1, residual_block_size)

\* The two memcpy of the kCtsPadding branch: the leading bytes of the last
\* full cipher block go to the residual position, the encrypted zero-padded
\* residual block takes the place of the last full block
CtsOutput(cbc_out, residual_cipher, cbc_size, residual_block_size) ==
  SubSeq(cbc_out, 1, cbc_size - AES_BLOCK_SIZE) \o residual_cipher
    \o SubSeq(cbc_out, cbc_size - AES_BLOCK_SIZE + 1,
              cbc_size - AES_BLOCK_SIZE + residual_block_size)

\* the residual bytes of the output left as the buffer had them (zero)
NoPaddingOutputNoCopy(cbc_out, plaintext, cbc_size, residual_block_size) ==
  cbc_out \o [k \in 1..residual_block_size |-> 0]

\* The memcpy of the kNoPadding branch: the residual block is copied to the
\* output behind the CBC blocks, unencrypted
NoPaddingOutput(cbc_out, plaintext, cbc_size, residual_block_size) ==
  cbc_out \o SubSeq(plaintext, cbc_size + 1, cbc_size + residual_block_size)

\* AesCbcEncryptor::CryptInternal(plaintext, plaintext_size, ciphertext,
\* &ciphertext_size)
CbcCryptInternal(padding_scheme, key, internal_iv, plaintext, ciphertext_size) ==
  LET plaintext_size == Len(plaintext)
      residual_block_size == plaintext_size % AES_BLOCK_SIZE
      num_padding_bytes == NumPaddingBytes(padding_scheme, plaintext_size)
      required_ciphertext_size == plaintext_size + num_padding_bytes
      cbc_size == plaintext_size - residual_block_size
      cbc == IF cbc_size # 0
             THEN AES_cbc_encrypt(SubSeq(plaintext, 1, cbc_size), key,
                                  internal_iv)
             ELSE [out |-> <<>>, ivec |-> internal_iv]
      residual_block == SubSeq(plaintext, cbc_size + 1, plaintext_size)
      pkcs5 == AES_cbc_encrypt(
                 ResizeBytesFill(residual_block, AES_BLOCK_SIZE,
                                 num_padding_bytes), key, cbc.ivec)
      cts == AES_cbc_encrypt(
               ResizeBytesFill(residual_block, AES_BLOCK_SIZE, 0), key,
               cbc.ivec)
  IN IF ciphertext_size < required_ciphertext_size
     THEN CbcResult(FALSE, <<>>, ciphertext_size, internal_iv)
     ELSE IF cbc_size = 0 /\ padding_scheme = kCtsPadding
     THEN CbcResult(TRUE, plaintext, required_ciphertext_size, internal_iv)
     ELSE IF residual_block_size = 0 /\ padding_scheme # kPkcs5Padding
     THEN CbcResult(TRUE, cbc.out, required_ciphertext_size, cbc.ivec)
     ELSE IF padding_scheme = kNoPadding
     THEN CbcResult(TRUE,
                    NoPaddingOutput(cbc.out, plaintext, cbc_size,
                                    residual_block_size),
                    required_ciphertext_size, cbc.ivec)
     ELSE IF padding_scheme = kPkcs5Padding
     THEN CbcResult(TRUE, cbc.out \o pkcs5.out, required_ciphertext_size,
                    pkcs5.ivec)
     ELSE CbcResult(TRUE,
                    CtsOutput(cbc.out, cts.out, cbc_size, residual_block_size),
                    required_ciphertext_size, cts.ivec)

\* AesCbcEncryptor::SetIvInternal()
CbcSetIvInternal(iv) == ResizeBytes(iv, AES_BLOCK_SIZE)

\* plaintext_size of one call: empty, less than a block, a block, a block and
\* a residue, two blocks, two blocks and a residue
CbcSizes == {0, 1, 16, 17, 32, 33}

\* plaintexts: the bytes 1, 2, ..., n of every size, and the block 0, 1, 2,
\* ..., 15
CbcPlaintexts ==
  { [j \in 1..n |-> j] : n \in CbcSizes }
    \cup { [j \in 1..AES_BLOCK_SIZE |-> j - 1] }

\* IVs: an 8-byte IV and a 16-byte IV
CbcIvs == { [j \in 1..8 |-> j], [j \in 1..16 |-> 16 * j - 1] }

\* keys of 24 and 32 bytes
Key24 == [j \in 1..24 |-> 7 * j]
Key32 == [j \in 1..32 |-> 255 - j]

CbcKeys == Keys \cup {Key24, Key32}

\* keys of other sizes: none, one byte short or long of a valid size, 8 bytes
InvalidKeys == { [j \in 1..n |-> j] : n \in {0, 8, 15, 17, 33} }

\* an IV that SetIv refuses
InvalidIvs == { [j \in 1..7 |-> j] }

NoInit == [key |-> <<>>, iv |-> <<>>, result |-> FALSE]

\* construction without the CHECK_EQ on the flag
CbcConstructedNoCheck(padding_scheme, constant_iv_flag) ==
  /\ padding_scheme_ = padding_scheme
  /\ constant_iv_flag_ = constant_iv_flag
  /\ cbc_pc = "constructed"
  /\ cbc_init = NoInit
  /\ cbc_aes_key = <<>>
  /\ cbc_iv_ = <<>>
  /\ internal_iv_ = <<>>
  /\ cbc_calls = <<>>
  /\ cbc_num_calls = 0
  /\ cbc_set_ivs = 0

\* AesCbcEncryptor(padding_scheme, constant_iv_flag); the CHECK_EQ aborts when
\* a padded scheme is asked for without kUseConstantIv
CbcConstructed(padding_scheme, constant_iv_flag) ==
  /\ padding_scheme_ = padding_scheme
  /\ constant_iv_flag_ = constant_iv_flag
  /\ cbc_pc = IF padding_scheme # kNoPadding /\ constant_iv_flag # kUseConstantIv
              THEN "aborted"
              ELSE "constructed"
  /\ cbc_init = NoInit
  /\ cbc_aes_key = <<>>
  /\ cbc_iv_ = <<>>
  /\ internal_iv_ = <<>>
  /\ cbc_calls = <<>>
  /\ cbc_num_calls = 0
  /\ cbc_set_ivs = 0

\* AesCbcEncryptor(padding_scheme): the flag defaults to kDontUseConstantIv
CbcConstructedDefault(padding_scheme) ==
  CbcConstructed(padding_scheme, kDontUseConstantIv)

\* a key of any whole number of 64-bit words up to 256 bits
IsKeySizeValidUpTo32(key_size) ==
  key_size > 0 /\ key_size <= 32 /\ key_size % 8 = 0

\* IsKeySizeValidForAes(key_size): AES defines three key sizes
IsKeySizeValidForAes(key_size) == key_size \in {16, 24, 32}

\* AesCryptor::SetIv(iv) returns false for an IV that is not 8 or 16 bytes
SetIvAccepts(iv) == Len(iv) \in {8, 16}

\* AesCryptor::SetIv(iv) on the CBC encryptor: store the IV and call
\* SetIvInternal
CbcSetIvTo(iv) ==
  /\ cbc_iv_' = iv
  /\ internal_iv_' = CbcSetIvInternal(iv)
  /\ cbc_calls' = <<>>

\* AesCryptor::Crypt(text, crypt_text, &crypt_text_size): an encryptor
\* constructed with kUseConstantIv starts every call from the stored IV
\* (SetIvInternal), one constructed with kDontUseConstantIv carries on from
\* the IV the previous call left; then CryptInternal runs
Crypt(plaintext, ciphertext_size) ==
  LET start_iv == IF constant_iv_flag_ = kUseConstantIv
                  THEN CbcSetIvInternal(cbc_iv_)
                  ELSE internal_iv_
      r == CbcCryptInternal(padding_scheme_, cbc_aes_key, start_iv, plaintext,
                            ciphertext_size)
  IN /\ internal_iv_' = r.internal_iv_
     /\ cbc_calls' = Append(cbc_calls,
                            [plaintext |-> plaintext,
                             short |-> ciphertext_size
                                         < Len(plaintext)
                                           + NumPaddingBytes(padding_scheme_,
                                                             Len(plaintext)),
                             ciphertext |-> r.ciphertext,
                             ciphertext_size |-> r.ciphertext_size,
                             ok |-> r.ok,
                             start_iv |-> start_iv,
                             end_iv |-> r.internal_iv_])

\* AesEncryptor::InitializeWithIv(key, iv) on the CBC encryptor
CbcInitializeWithIv ==
  /\ cbc_pc \in {"constructed", "init_failed"}
  /\ \E key \in CbcKeys \cup InvalidKeys, iv \in CbcIvs \cup InvalidIvs :
       IF ~IsKeySizeValidForAes(Len(key))
       THEN /\ cbc_init' = [key |-> key, iv |-> iv, result |-> FALSE]
            /\ cbc_pc' = "init_failed"
            /\ UNCHANGED <<cbc_aes_key, cbc_iv_, internal_iv_, cbc_calls>>
       ELSE /\ cbc_aes_key' = key
            /\ cbc_init' = [key |-> key, iv |-> iv, result |-> SetIvAccepts(iv)]
            /\ IF SetIvAccepts(iv)
               THEN CbcSetIvTo(iv) /\ cbc_pc' = "ready"
               ELSE /\ cbc_pc' = "init_failed"
                    /\ UNCHANGED <<cbc_iv_, internal_iv_, cbc_calls>>
  /\ UNCHANGED <<padding_scheme_, constant_iv_flag_, cbc_num_calls, cbc_set_ivs>>

\* One encrypt call, with room for ciphertext_size bytes: the bytes needed
\* less one of shorts
CbcEncryptWithRoom(shorts) ==
  /\ cbc_pc = "ready"
  /\ cbc_num_calls < MaxCbcCalls
  /\ \E plaintext \in CbcPlaintexts, short \in shorts :
       LET required == Len(plaintext)
                         + NumPaddingBytes(padding_scheme_, Len(plaintext))
       IN /\ required - short >= 0
          /\ Crypt(plaintext, required - short)
  /\ cbc_num_calls' = cbc_num_calls + 1
  /\ UNCHANGED <<cbc_pc, cbc_init, padding_scheme_, constant_iv_flag_,
                 cbc_aes_key, cbc_iv_, cbc_set_ivs>>

\* One encrypt call with just enough room, or one byte too few
CbcEncrypt == CbcEncryptWithRoom(0..1)

\* One encrypt call with one byte more than needed, just enough, or one byte
\* too few
CbcEncryptAnyRoom == CbcEncryptWithRoom(-1..1)

\* SetIv with a new IV after some calls
CbcSetIv ==
  /\ cbc_pc = "ready"
  /\ cbc_set_ivs = 0
  /\ cbc_calls # <<>>
  /\ \E iv \in CbcIvs : CbcSetIvTo(iv)
  /\ cbc_set_ivs' = 1
  /\ UNCHANGED <<cbc_pc, cbc_init, padding_scheme_, constant_iv_flag_,
                 cbc_aes_key, cbc_num_calls>>

(***************************************************************************)
(* Specifications *)

\* the encryptors are constructed and not used
CryptorsIdle == CtrConstructed /\ CbcConstructedDefault(kNoPadding)

\* no file is used
LocalFileIdle == LocalFileSetUp /\ io_cache_size = 0

SegInit ==
  /\ \E f \in 1..MaxFragments : \E d \in [1..f -> 1..MaxDuration] :
       SegmenterInit([i \in 1..f |-> SizeReference(i, d[i])])
  /\ CryptorsIdle
  /\ LocalFileIdle

SapInit ==
  /\ \E f \in 1..MaxSapFragments : \E p \in [1..f -> SapFields] :
       SegmenterInit([i \in 1..f |-> SapReference(i, p[i])])
  /\ CryptorsIdle
  /\ LocalFileIdle

SegNext == DoFinalizeSegment /\ UNCHANGED <<ctr_vars, cbc_vars, file_vars>>

SegSpec == SegInit /\ [][SegNext]_vars
SapSpec == SapInit /\ [][SegNext]_vars

CtrInit == SegmenterIdle /\ CryptorsIdle /\ LocalFileIdle

CtrNext ==
  \/ (CtrInitializeWithIv /\ UNCHANGED <<seg_vars, cbc_vars, file_vars>>)
  \/ (CtrEncrypt /\ UNCHANGED <<seg_vars, cbc_vars, file_vars>>)
  \/ (CtrSetIv /\ UNCHANGED <<seg_vars, cbc_vars, file_vars>>)

CtrSpec == CtrInit /\ [][CtrNext]_vars

WriteInit == SegmenterConstructed /\ CryptorsIdle /\ LocalFileIdle

WriteNext ==
  \/ (DoInitialize /\ UNCHANGED <<ctr_vars, cbc_vars, file_vars>>)
  \/ (NewSegment /\ UNCHANGED <<ctr_vars, cbc_vars, file_vars>>)
  \/ (DoFinalizeSegment /\ UNCHANGED <<ctr_vars, cbc_vars, file_vars>>)

WriteSpec == WriteInit /\ [][WriteNext]_vars

CbcInit ==
  /\ SegmenterIdle
  /\ LocalFileIdle
  /\ CtrConstructed
  /\ \E padding_scheme \in CbcPaddingScheme, constant_iv_flag \in ConstantIvFlag :
       CbcConstructed(padding_scheme, constant_iv_flag)

CbcNext ==
  \/ (CbcInitializeWithIv /\ UNCHANGED <<seg_vars, ctr_vars, file_vars>>)
  \/ (CbcEncrypt /\ UNCHANGED <<seg_vars, ctr_vars, file_vars>>)
  \/ (CbcSetIv /\ UNCHANGED <<seg_vars, ctr_vars, file_vars>>)

CbcSpec == CbcInit /\ [][CbcNext]_vars

\* Both encryptors, for what their CryptInternal have in common.  The two
\* objects share nothing, so a behaviour uses one of them: the counter-mode
\* encryptor next to a CBC encryptor that stays as constructed, or the CBC
\* encryptor next to a counter-mode encryptor that stays as constructed.
CryptInit == CbcInit

CbcUntouched ==
  /\ cbc_pc = "constructed"
  /\ padding_scheme_ = kNoPadding
  /\ constant_iv_flag_ = kDontUseConstantIv

CryptNext ==
  \/ (CbcUntouched /\ CtrInitializeWithIv /\ UNCHANGED <<seg_vars, cbc_vars, file_vars>>)
  \/ (Len(ctr_calls) < MaxCryptCalls /\ CtrEncrypt
        /\ UNCHANGED <<seg_vars, cbc_vars, file_vars>>)
  \/ (ctr_pc = "constructed" /\ CbcInitializeWithIv
        /\ UNCHANGED <<seg_vars, ctr_vars, file_vars>>)
  \/ (cbc_num_calls < MaxCbcCryptCalls /\ CbcEncryptAnyRoom
        /\ UNCHANGED <<seg_vars, ctr_vars, file_vars>>)

CryptSpec == CryptInit /\ [][CryptNext]_vars

\* The File calls of LocalFileTest in any order, for every cache size
FileInit ==
  /\ SegmenterIdle
  /\ CryptorsIdle
  /\ LocalFileSetUp
  /\ io_cache_size \in CacheSizes

FileNext ==
  \/ (LocalFileOpenWrite /\ UNCHANGED <<seg_vars, ctr_vars, cbc_vars>>)
  \/ (LocalFileWrite /\ UNCHANGED <<seg_vars, ctr_vars, cbc_vars>>)
  \/ (LocalFileSeek /\ UNCHANGED <<seg_vars, ctr_vars, cbc_vars>>)
  \/ (LocalFileSize /\ UNCHANGED <<seg_vars, ctr_vars, cbc_vars>>)
  \/ (LocalFileClose /\ UNCHANGED <<seg_vars, ctr_vars, cbc_vars>>)
  \/ (LocalFileOpenRead /\ UNCHANGED <<seg_vars, ctr_vars, cbc_vars>>)
  \/ (LocalFileRead /\ UNCHANGED <<seg_vars, ctr_vars, cbc_vars>>)

FileSpec == FileInit /\ [][FileNext]_vars

----------------------------------------------------------------------------
(* Properties of DoFinalizeSegment *)

\* ceil(a / b) for b > 0
CeilDiv(a, b) == (a + b - 1) \div b

NumFragments == Len(fragments)

\* P = ceil(F / N), the fragments per subsegment of the specification
FragmentsPerGroup == CeilDiv(NumFragments, num_subsegments_per_sidx)

\* the coalescing case: N > 0 and P > 1, after DoFinalizeSegment
Coalesced ==
  /\ seg_pc = "done"
  /\ num_subsegments_per_sidx > 0
  /\ FragmentsPerGroup > 1

\* number of groups of P consecutive fragments (the last may be smaller)
NumGroups == CeilDiv(NumFragments, FragmentsPerGroup)

\* 1-based indices of the fragments of group k (k = 0, 1, ...)
Group(k) ==
  (k * FragmentsPerGroup + 1) ..
     Min((k + 1) * FragmentsPerGroup, NumFragments)

RECURSIVE SumSize(_)
SumSize(S) ==
  IF S = {} THEN 0
  ELSE LET j == CHOOSE x \in S : TRUE
       IN fragments[j].referenced_size + SumSize(S \ {j})

RECURSIVE SumDur(_)
SumDur(S) ==
  IF S = {} THEN 0
  ELSE LET j == CHOOSE x \in S : TRUE
       IN fragments[j].subsegment_duration + SumDur(S \ {j})

\* minimum earliest_presentation_time over the fragments with index in S
MinTime(S) ==
  CHOOSE t \in { fragments[j].earliest_presentation_time : j \in S } :
    \A j \in S : t <= fragments[j].earliest_presentation_time

KnownIn(S) == { j \in S : fragments[j].sap_type # TypeUnknown }

\* the first fragment of S whose sap_type is known
FirstKnown(S) == CHOOSE j \in KnownIn(S) : \A m \in KnownIn(S) : j <= m

\* C1: with N > 0 and P = ceil(F/N) > 1, the k-th resulting reference
\* aggregates exactly the fragments k*P .. min((k+1)*P, F)-1: its
\* referenced_size and subsegment_duration are the sums over that group.
C1_GroupsOfP ==
  Coalesced =>
    \A k \in 0..(NumGroups - 1) :
      /\ k + 1 <= Len(references)
      /\ references[k + 1].referenced_size = SumSize(Group(k))
      /\ references[k + 1].subsegment_duration = SumDur(Group(k))

\* C2: with N > 0 and at least N pre-generated fragment references,
\* sidx.references has exactly N entries when the segment is written.
C2_ExactlyNReferences ==
  (seg_pc = "done" /\ num_subsegments_per_sidx > 0
     /\ NumFragments >= num_subsegments_per_sidx)
    => Len(references) = num_subsegments_per_sidx

\* a segment with more fragments than subsegments was coalesced and its sidx
\* box written
C2_Witness ==
  /\ Coalesced
  /\ NumFragments = 5
  /\ num_subsegments_per_sidx = 2
  /\ Len(references) = 2
  /\ file.data = <<"styp", "sidx", "fragment">>

\* C8: after coalescing, every resulting reference has the sap_type of the
\* first fragment of its group whose sap_type is known, and sap_delta_time =
\* that fragment's (earliest_presentation_time + sap_delta_time) minus the
\* minimum earliest_presentation_time of the group.
C8_SapOfFirstKnownFragment ==
  Coalesced =>
    \A k \in 0..(NumGroups - 1) :
      KnownIn(Group(k)) # {} =>
        LET j == FirstKnown(Group(k))
        IN /\ k + 1 <= Len(references)
           /\ references[k + 1].sap_type = fragments[j].sap_type
           /\ references[k + 1].sap_delta_time =
                fragments[j].earliest_presentation_time
                  + fragments[j].sap_delta_time - MinTime(Group(k))

\* C9: after coalescing, a group in which no fragment has a known SAP type
\* yields a reference with sap_type = TypeUnknown and sap_delta_time = 0.
C9_UnknownGroupHasZeroDelta ==
  Coalesced =>
    \A k \in 0..(NumGroups - 1) :
      KnownIn(Group(k)) = {} =>
        /\ k + 1 <= Len(references)
        /\ references[k + 1].sap_type = TypeUnknown
        /\ references[k + 1].sap_delta_time = 0

\* C10: after coalescing, each reference's earliest_presentation_time is the
\* minimum over the fragments of its group, and
\* sidx.earliest_presentation_time is the minimum over the first group.
C10_EarliestPresentationTime ==
  Coalesced =>
    /\ \A k \in 0..(NumGroups - 1) :
         /\ k + 1 <= Len(references)
         /\ references[k + 1].earliest_presentation_time = MinTime(Group(k))
    /\ sidx_earliest_presentation_time = MinTime(Group(0))

\* C12: DoFinalizeSegment leaves the sidx references as they were generated
\* (one per fragment, same order, same field values) whenever
\* num_subsegments_per_sidx <= 0 or F <= N (P = 1), and then
\* sidx.earliest_presentation_time is that of the first reference.
C12_NoCoalescingKeepsReferences ==
  (/\ seg_pc = "done"
   /\ \/ num_subsegments_per_sidx <= 0
      \/ NumFragments <= num_subsegments_per_sidx)
    => /\ references = fragments
       /\ sidx_earliest_presentation_time =
            fragments[1].earliest_presentation_time

\* Three fragments with num_subsegments_per_sidx = 3 (P = 1) were finalized
\* and written with their three references.
C12_Witness ==
  /\ seg_pc = "done"
  /\ num_subsegments_per_sidx = 3
  /\ NumFragments = 3
  /\ Len(references) = 3
  /\ status = OK

RECURSIVE SumWrittenSize(_)
\* sum of referenced_size over the sidx references with index in S
SumWrittenSize(S) ==
  IF S = {} THEN 0
  ELSE LET j == CHOOSE x \in S : TRUE
       IN references[j].referenced_size + SumWrittenSize(S \ {j})

RECURSIVE SumWrittenDur(_)
\* sum of subsegment_duration over the sidx references with index in S
SumWrittenDur(S) ==
  IF S = {} THEN 0
  ELSE LET j == CHOOSE x \in S : TRUE
       IN references[j].subsegment_duration + SumWrittenDur(S \ {j})

\* C25: after DoFinalizeSegment the sum of referenced_size and the sum of
\* subsegment_duration over sidx.references equal the sums over the F
\* fragment references, for every F >= 1 and every num_subsegments_per_sidx:
\* every fragment is counted in exactly one final reference and no final
\* reference is a leftover un-merged entry.
C25_SumsPreserved ==
  seg_pc = "done" =>
    /\ SumWrittenSize(DOMAIN references) = SumSize(DOMAIN fragments)
    /\ SumWrittenDur(DOMAIN references) = SumDur(DOMAIN fragments)

----------------------------------------------------------------------------
(* Properties of WriteSegment and DoInitialize *)

\* the positions in seg_calls of the calls of a name
CallsOf(name) == { i \in DOMAIN seg_calls : seg_calls[i].call = name }

\* the positions in seg_calls of the calls of a name that failed
FailedCallsOf(name) == { i \in CallsOf(name) : ~seg_calls[i].ok }

\* the boxes of the file WriteSegment wrote
BoxesWritten == { file.data[i] : i \in DOMAIN file.data }

\* the header buffer reached the file
HeaderWritten ==
  /\ CallsOf("buffer->WriteToFile") # {}
  /\ FailedCallsOf("buffer->WriteToFile") = {}

\* C11: WriteSegment writes the sidx box into the segment output if and only
\* if num_subsegments_per_sidx >= 0: never for a negative value, and on every
\* segment whose header buffer is written for zero or a positive value.
C11_SidxIffNonNegative ==
  seg_pc = "done" =>
    /\ num_subsegments_per_sidx < 0 => "sidx" \notin BoxesWritten
    /\ (num_subsegments_per_sidx >= 0 /\ HeaderWritten) =>
         /\ "sidx" \in BoxesWritten
         /\ file.bytes >= BoxSize("sidx", references)

\* The second segment file, written with num_subsegments_per_sidx = 0, holds
\* a sidx.
C11_Witness ==
  /\ seg_pc = "done"
  /\ num_subsegments_per_sidx = 0
  /\ num_segments_ = 2
  /\ status = OK
  /\ file.data = <<"styp", "sidx", "fragment">>

\* the names of the calls made on the listener, in order
ListenerCallNames == [i \in DOMAIN listener_calls |-> listener_calls[i].call]

\* every call of name a comes before every call of name b
Before(a, b) == \A i \in CallsOf(a), j \in CallsOf(b) : i < j

\* C13: with a listener installed, a WriteSegment call that returns OK calls
\* OnSampleDurationReady and then OnNewSegment exactly once each, after both
\* file writes and the close; a call that returns an error calls neither and
\* does not call UpdateProgress.
C13_ListenerOnlyAfterSuccess ==
  (seg_pc = "done" /\ muxer_listener) =>
    IF status = OK
    THEN /\ ListenerCallNames = <<"OnSampleDurationReady", "OnNewSegment">>
         /\ Cardinality(CallsOf("OnSampleDurationReady")) = 1
         /\ Cardinality(CallsOf("OnNewSegment")) = 1
         /\ Cardinality(CallsOf("buffer->WriteToFile")) = 1
         /\ Cardinality(CallsOf("fragment_buffer()->WriteToFile")) = 1
         /\ Cardinality(CallsOf("File::Close")) = 1
         /\ Before("OnSampleDurationReady", "OnNewSegment")
         /\ Before("buffer->WriteToFile", "OnSampleDurationReady")
         /\ Before("fragment_buffer()->WriteToFile", "OnSampleDurationReady")
         /\ Before("File::Close", "OnSampleDurationReady")
    ELSE /\ listener_calls = <<>>
         /\ progress_updates = <<>>
         /\ CallsOf("OnSampleDurationReady") = {}
         /\ CallsOf("OnNewSegment") = {}
         /\ CallsOf("UpdateProgress") = {}

\* A segment was written and reported to the installed listener.
C13_Witness ==
  /\ seg_pc = "done"
  /\ muxer_listener
  /\ status = OK
  /\ Len(listener_calls) = 2
  /\ Len(seg_calls) = 7

RECURSIVE SumWrittenDuration(_)
\* sum of subsegment_duration over the sidx references with index in S
SumWrittenDuration(S) ==
  IF S = {} THEN 0
  ELSE LET j == CHOOSE x \in S : TRUE
       IN references[j].subsegment_duration + SumWrittenDuration(S \ {j})

\* C14: the OnNewSegment notification carries the name of the file just
\* written, start time = sidx.earliest_presentation_time, duration = the sum
\* of subsegment_duration over the sidx references as written, and size = the
\* bytes of the styp/sidx header buffer plus the bytes of the fragment buffer,
\* which is the number of bytes written to the file for the segment.
C14_OnNewSegmentArguments ==
  (seg_pc = "done" /\ muxer_listener /\ status = OK) =>
    LET n == listener_calls[Len(listener_calls)]
    IN /\ n.call = "OnNewSegment"
       /\ n.file_name = file.name
       /\ n.file_name =
            IF segment_template_empty THEN OutputFileName
            ELSE GetSegmentName(sidx_earliest_presentation_time,
                                num_segments_ - 1)
       /\ n.start_time = sidx_earliest_presentation_time
       /\ n.duration = SumWrittenDuration(DOMAIN references)
       /\ n.size = file.bytes
       /\ n.size = (IF segment_template_empty THEN 0 ELSE BoxSize("styp", <<>>))
                   + (IF num_subsegments_per_sidx >= 0
                      THEN BoxSize("sidx", references) ELSE 0)
                   + SumSize(1..NumFragments)

\* The second segment file of two fragments coalesced into one reference was
\* reported with its styp, sidx and fragment bytes.
C14_Witness ==
  /\ seg_pc = "done"
  /\ muxer_listener
  /\ status = OK
  /\ num_segments_ = 2
  /\ num_subsegments_per_sidx = 1
  /\ NumFragments = 2
  /\ Len(references) = 1
  /\ listener_calls[2].size = 24 + 44 + 3

\* C15: a failing Close never changes the returned status, in WriteSegment
\* and in DoInitialize: a write error is returned as it is, and when every
\* write succeeded the result is OK and the listener is notified.
C15_CloseFailureKeepsStatus ==
  FailedCallsOf("File::Close") # {} =>
    /\ FailedCallsOf("buffer->WriteToFile") # {} => status = HeaderWriteError
    /\ FailedCallsOf("fragment_buffer()->WriteToFile") # {} =>
         status = FragmentWriteError
    /\ (/\ FailedCallsOf("buffer->WriteToFile") = {}
        /\ FailedCallsOf("fragment_buffer()->WriteToFile") = {}) =>
         /\ status = OK
         /\ (seg_pc = "done" /\ muxer_listener) =>
              /\ Len(listener_calls) = 2
              /\ listener_calls[2].call = "OnNewSegment"
         /\ seg_pc = "done" => Len(progress_updates) = 1
         /\ seg_pc \in {"done", "initialized"}

\* A segment was written, the Close failed, and the listener was notified of
\* the OK result.
C15_Witness ==
  /\ seg_pc = "done"
  /\ FailedCallsOf("File::Close") # {}
  /\ status = OK
  /\ muxer_listener
  /\ Len(listener_calls) = 2

\* C16: WriteSegment returns the first failure it meets and performs no later
\* write step: when the segment file cannot be opened it returns FILE_FAILURE
\* with nothing written; when writing the styp/sidx header buffer fails the
\* fragment buffer is not written and the header's error is the one returned.
C16_FirstFailureReturned ==
  seg_pc = "done" =>
    /\ FailedCallsOf("File::Open") # {} =>
         /\ status \in {CannotOpenForWrite, CannotOpenForAppend}
         /\ seg_calls = <<Call("File::Open", FALSE)>>
         /\ file = NoFile
    /\ FailedCallsOf("buffer->WriteToFile") # {} =>
         /\ status = HeaderWriteError
         /\ CallsOf("fragment_buffer()->WriteToFile") = {}
         /\ "fragment" \notin BoxesWritten
         /\ file.bytes = 0

\* The header buffer of a segment file failed to be written.
C16_Witness ==
  /\ seg_pc = "done"
  /\ FailedCallsOf("buffer->WriteToFile") # {}
  /\ status = HeaderWriteError
  /\ ~segment_template_empty

\* the boxes of a complete segment: styp with a template only, sidx unless
\* num_subsegments_per_sidx is negative, then the fragment buffer
SegmentLayout ==
  (IF segment_template_empty THEN <<>> ELSE <<"styp">>) \o
  (IF num_subsegments_per_sidx >= 0 THEN <<"sidx">> ELSE <<>>) \o
  <<"fragment">>

\* v is a leading part of w
IsPrefix(v, w) == Len(v) <= Len(w) /\ v = SubSeq(w, 1, Len(v))

\* C22: in template mode WriteSegment opens a file under a name no earlier
\* call used, for truncating write, and writes the styp box, the sidx box
\* (when num_subsegments_per_sidx >= 0) and the fragment buffer in this
\* order; without a segment template it appends sidx and fragment buffer to
\* output_file_name, with no styp box and without consuming a segment number.
C22_SegmentFileLayout ==
  (seg_pc = "done" /\ file # NoFile) =>
    /\ IsPrefix(file.data, SegmentLayout)
    /\ status = OK => file.data = SegmentLayout
    /\ IF segment_template_empty
       THEN /\ file.name = OutputFileName
            /\ file.mode = "a"
            /\ \A k \in DOMAIN file.data : file.data[k] # "styp"
            /\ num_segments_ = 0
       ELSE /\ file.name = GetSegmentName(sidx_earliest_presentation_time,
                                          num_segments_ - 1)
            /\ file.mode = "w"
            /\ \A k \in 1..(Len(write_history) - 1) :
                 write_history[k].file_name # file.name

\* The second segment of a template-mode run with a sidx is written: styp,
\* sidx and fragment buffer, to a file opened with "w" under another name
\* than the first segment's.
C22_Witness ==
  /\ seg_pc = "done"
  /\ status = OK
  /\ ~segment_template_empty
  /\ num_subsegments_per_sidx >= 0
  /\ Len(write_history) = 2
  /\ write_history[1].status = OK
  /\ file.mode = "w"
  /\ file.data = <<"styp", "sidx", "fragment">>
  /\ file.name # write_history[1].file_name

\* C26: in template mode the k-th WriteSegment call (k from 0) gives the
\* number k to GetSegmentName: num_segments_ starts at 0 and grows by one
\* with every call, the calls whose open or write fails included, so the
\* numbers of the files written successfully increase strictly and a failed
\* call leaves a gap.
C26_SegmentNumbers ==
  ~segment_template_empty =>
    /\ num_segments_ = Len(write_history)
    /\ \A k \in DOMAIN write_history :
         write_history[k].file_name.number = k - 1
    /\ \A j, k \in DOMAIN write_history :
         (j < k /\ write_history[j].status = OK /\ write_history[k].status = OK)
           => write_history[j].file_name.number
                < write_history[k].file_name.number

\* The first call could not open its file and still consumed number 0; the
\* second call wrote its segment under number 1.
C26_Witness ==
  /\ ~segment_template_empty
  /\ Len(write_history) = 2
  /\ write_history[1].status = CannotOpenForWrite
  /\ write_history[1].file_name.number = 0
  /\ write_history[2].status = OK
  /\ file.name.number = 1
  /\ num_segments_ = 2

----------------------------------------------------------------------------
(* Properties of AesCtrEncryptor *)

\* bytes 0-7 of a counter block
HighHalf(counter) == SubSeq(counter, 1, 8)

\* bytes 8-15 of a counter block as a big-endian number, in three digits of
\* 16, 24 and 24 bits
LowHalf(counter) ==
  << counter[9] * 256 + counter[10],
     counter[11] * 65536 + counter[12] * 256 + counter[13],
     counter[14] * 65536 + counter[15] * 256 + counter[16] >>

\* n + 1 modulo 2^64 on the three-digit form
PlusOne(n) ==
  IF n[3] + 1 < 16777216 THEN <<n[1], n[2], n[3] + 1>>
  ELSE IF n[2] + 1 < 16777216 THEN <<n[1], n[2] + 1, 0>>
  ELSE <<(n[1] + 1) % 65536, 0, 0>>

RECURSIVE Plus(_, _)
\* n + k modulo 2^64
Plus(n, k) == IF k = 0 THEN n ELSE Plus(PlusOne(n), k - 1)

RECURSIVE SumSeq(_)
SumSeq(q) == IF q = <<>> THEN 0 ELSE q[1] + SumSeq(Tail(q))

\* a step made by an encrypt call (SetIv changes iv_ or ctr_first)
CtrEncryptStep ==
  /\ ctr_pc = "ready"
  /\ ctr_pc' = "ready"
  /\ ctr_first' = ctr_first

\* C3: during encrypt calls after SetIv, bytes 0-7 of the counter block never
\* change, and bytes 8-15, read as a 64-bit big-endian integer, only go up by
\* one modulo 2^64 per increment (0xFFFFFFFFFFFFFFFF wraps to 0 without a
\* carry into byte 7).
C3_CounterHalves ==
  [][CtrEncryptStep =>
       /\ HighHalf(counter_') = HighHalf(counter_)
       /\ LowHalf(counter_') =
            Plus(LowHalf(counter_), num_increments' - num_increments)]_vars

\* the counter half wrapped from 0xFFFFFFFFFFFFFFFF to 0 and went on to 1
C3_Witness ==
  /\ ctr_pc = "ready"
  /\ Len(iv_) = 16
  /\ \A j \in 9..16 : iv_[j] = 255
  /\ iv_[8] = 7
  /\ num_increments = 2
  /\ LowHalf(counter_) = <<0, 0, 1>>
  /\ HighHalf(counter_) = HighHalf(iv_)

\* the state right after SetIvInternal for the current IV
AfterSetIv ==
  [counter_ |-> ResizeBytes(iv_, AES_BLOCK_SIZE), block_offset_ |-> 0,
   encrypted_counter_ |-> ZeroBlock]

\* the bytes fed since the last SetIv
CtrFed == SubSeq(ctr_text, 1, Len(ctr_out))

\* C4: encrypting A and then B in consecutive calls (no SetIv in between, A
\* of any length) yields the same ciphertext as encrypting A||B in one call.
C4_SplitEqualsConcat ==
  ctr_pc = "ready" =>
    ctr_out = CtrCryptInternal(CryptInput(AfterSetIv), aes_key, CtrFed,
                               Len(CtrFed)).ciphertext

\* a call that ended inside a keystream block was followed by another call
C4_Witness ==
  /\ ctr_pc = "ready"
  /\ ctr_calls = <<1, 17>>
  /\ Len(ctr_out) = 18
  /\ ctr_out # CtrFed

\* C5: after SetIv and encrypt calls totalling n bytes, the block counter was
\* incremented exactly ceil(n/16) times and block_offset_ = n mod 16.
C5_IncrementsPerBlock ==
  ctr_pc = "ready" =>
    /\ num_increments = CeilDiv(Len(ctr_out), AES_BLOCK_SIZE)
    /\ block_offset_ = Len(ctr_out) % AES_BLOCK_SIZE
    /\ LowHalf(counter_) = Plus(LowHalf(AfterSetIv.counter_), num_increments)

\* calls of 17, 0 and 1 bytes: two blocks started, offset 2
C5_Witness ==
  /\ ctr_pc = "ready"
  /\ ctr_calls = <<17, 0, 1>>
  /\ num_increments = 2
  /\ block_offset_ = 2

\* C6: running the CTR transform on the plaintext and then, after SetIv with
\* the same IV and key, on the ciphertext returns the plaintext byte for
\* byte; every call returns as many bytes as it was given.
C6_CtrIsItsOwnInverse ==
  /\ ctr_pc = "ready" => Len(ctr_out) = SumSeq(ctr_calls)
  /\ (ctr_first # NoFirst /\ iv_ = ctr_first.iv) =>
       ctr_out = SubSeq(ctr_first.text, 1, Len(ctr_out))

\* 17 bytes were encrypted and all 17 ciphertext bytes run through again
C6_Witness ==
  /\ ctr_first # NoFirst
  /\ iv_ = ctr_first.iv
  /\ Len(ctr_first.text) = 17
  /\ ctr_out = ctr_first.text
  /\ ctr_text # ctr_first.text
(***************************************************************************)
(* Properties of AesCbcEncryptor *)

\* The chaining IV a call leaves: its last cipher block produced by CBC, or
\* the IV it started from when it encrypted no block
ChainingIv(call) ==
  LET cbc_size == Len(call.plaintext) - (Len(call.plaintext) % AES_BLOCK_SIZE)
  IN IF call.ok /\ cbc_size > 0
     THEN SubSeq(call.ciphertext, cbc_size - AES_BLOCK_SIZE + 1, cbc_size)
     ELSE call.start_iv

\* Every call after the first starts from the chaining IV of the call before
CallsChain ==
  \A k \in 1..(Len(cbc_calls) - 1) :
     cbc_calls[k + 1].start_iv = ChainingIv(cbc_calls[k])

\* Every call starts from the IV stored by the last SetIv, and the same
\* plaintext gives the same ciphertext
CallsRestart ==
  /\ \A k \in 1..Len(cbc_calls) :
        cbc_calls[k].start_iv = ResizeBytes(cbc_iv_, AES_BLOCK_SIZE)
  /\ \A j, k \in 1..Len(cbc_calls) :
        (/\ cbc_calls[j].plaintext = cbc_calls[k].plaintext
         /\ cbc_calls[j].ok
         /\ cbc_calls[k].ok)
          => cbc_calls[j].ciphertext = cbc_calls[k].ciphertext

CbcInitializeStep ==
  /\ cbc_pc \in {"constructed", "init_failed"}
  /\ cbc_pc' \in {"ready", "init_failed"}

\* C17: InitializeWithIv returns false, without installing a key or changing
\* the IV, for every key whose size is not 16, 24 or 32 bytes; for a key of
\* one of these sizes it installs the key and returns the result of SetIv(iv).
C17_InitializeWithIvKeySizes ==
  [][CbcInitializeStep =>
       IF Len(cbc_init'.key) \notin {16, 24, 32}
       THEN /\ ~cbc_init'.result
            /\ cbc_pc' = "init_failed"
            /\ cbc_aes_key' = cbc_aes_key
            /\ cbc_iv_' = cbc_iv_
            /\ internal_iv_' = internal_iv_
       ELSE /\ cbc_aes_key' = cbc_init'.key
            /\ cbc_init'.result = SetIvAccepts(cbc_init'.iv)
            /\ cbc_init'.result = (cbc_pc' = "ready")
            /\ cbc_init'.result => cbc_iv_' = cbc_init'.iv]_vars

\* After a first InitializeWithIv installed a 24-byte key but returned false
\* for its IV, a second one with an 8-byte key returned false and left the
\* installed key alone.
C17_Witness ==
  /\ cbc_pc = "init_failed"
  /\ Len(cbc_init.key) = 8
  /\ ~cbc_init.result
  /\ cbc_aes_key = Key24
  /\ cbc_iv_ = <<>>

\* the successful encrypt calls since the last SetIv
OkCalls == { k \in DOMAIN cbc_calls : cbc_calls[k].ok }

\* the bytes a call returned: the first *ciphertext_size bytes of the buffer
Returned(call) == SubSeq(call.ciphertext, 1, call.ciphertext_size)

\* block b (1-based) of a byte sequence
BlockOf(bytes, b) ==
  SubSeq(bytes, AES_BLOCK_SIZE * (b - 1) + 1, AES_BLOCK_SIZE * b)

\* the cipher block before block b of a call's output, the IV the call
\* started from for the first block
PreviousBlock(call, b) ==
  IF b = 1 THEN call.start_iv ELSE BlockOf(call.ciphertext, b - 1)

\* the last block of a plaintext padded as PKCS#5 asks
Pkcs5LastBlock(plaintext) ==
  LET n == Len(plaintext)
      r == n % AES_BLOCK_SIZE
      pad == AES_BLOCK_SIZE - r
  IN SubSeq(plaintext, n - r + 1, n) \o [j \in 1..pad |-> pad]

\* C18: with kPkcs5Padding an n-byte plaintext encrypts to exactly
\* n + (16 - n mod 16) bytes (a multiple of 16, more than n, 16 bytes for
\* n = 0), and the last cipher block is the CBC encryption of the residual
\* plaintext bytes followed by pad bytes that each equal the pad count.
C18_Pkcs5Padding ==
  padding_scheme_ = kPkcs5Padding =>
    \A k \in OkCalls :
       LET call == cbc_calls[k]
           n == Len(call.plaintext)
           size == n + (AES_BLOCK_SIZE - (n % AES_BLOCK_SIZE))
           blocks == size \div AES_BLOCK_SIZE
       IN /\ call.ciphertext_size = size
          /\ Len(call.ciphertext) = size
          /\ size % AES_BLOCK_SIZE = 0
          /\ size > n
          /\ n = 0 => size = AES_BLOCK_SIZE
          /\ BlockOf(call.ciphertext, blocks) =
               AES_encrypt(cbc_aes_key,
                           XorBlock(Pkcs5LastBlock(call.plaintext),
                                    PreviousBlock(call, blocks)))

\* A 16-byte plaintext was encrypted with kPkcs5Padding to 32 bytes: the
\* second block encrypts 0x10 repeated 16 times.
C18_Witness ==
  /\ padding_scheme_ = kPkcs5Padding
  /\ Len(cbc_calls) >= 1
  /\ cbc_calls[1].ok
  /\ Len(cbc_calls[1].plaintext) = 16
  /\ cbc_calls[1].ciphertext_size = 32
  /\ Pkcs5LastBlock(cbc_calls[1].plaintext) = [j \in 1..16 |-> 16]

\* C19: with kCtsPadding a plaintext shorter than 16 bytes is returned
\* unchanged and the chaining IV is untouched, and for every plaintext of 16
\* bytes or more the ciphertext length equals the plaintext length.
C19_CtsShortAndLength ==
  padding_scheme_ = kCtsPadding =>
    \A k \in OkCalls :
       LET call == cbc_calls[k]
           n == Len(call.plaintext)
       IN /\ call.ciphertext_size = n
          /\ Len(Returned(call)) = n
          /\ n < AES_BLOCK_SIZE =>
               /\ Returned(call) = call.plaintext
               /\ call.end_iv = call.start_iv

\* With kCtsPadding a one-byte plaintext was returned as it is, and a 17-byte
\* plaintext gave 17 bytes.
C19_Witness ==
  /\ padding_scheme_ = kCtsPadding
  /\ Len(cbc_calls) = 2
  /\ cbc_calls[1].ok /\ cbc_calls[2].ok
  /\ Len(cbc_calls[1].plaintext) = 1
  /\ cbc_calls[1].ciphertext = cbc_calls[1].plaintext
  /\ Len(cbc_calls[2].plaintext) = 17
  /\ cbc_calls[2].ciphertext_size = 17

RECURSIVE PlainCbc(_, _, _)
\* plain CBC of whole blocks: the cipher blocks C1, C2, ... in one sequence
PlainCbc(key, iv, blocks) ==
  IF Len(blocks) < AES_BLOCK_SIZE THEN <<>>
  ELSE LET c == AES_encrypt(key, XorBlock(BlockOf(blocks, 1), iv))
       IN c \o PlainCbc(key, c, SubSeq(blocks, AES_BLOCK_SIZE + 1, Len(blocks)))

\* The output ciphertext stealing gives for a call: plain CBC of the full
\* blocks, with the encryption of the zero-padded tail in the place of the
\* last full block and the leading bytes of that block's plain CBC cipher
\* block as the tail
CtsSwapped(call) ==
  LET n == Len(call.plaintext)
      r == n % AES_BLOCK_SIZE
      m == n \div AES_BLOCK_SIZE
      cbc == PlainCbc(cbc_aes_key, call.start_iv,
                      SubSeq(call.plaintext, 1, n - r))
      last == BlockOf(cbc, m)
      tail == SubSeq(call.plaintext, n - r + 1, n) \o
                [j \in 1..(AES_BLOCK_SIZE - r) |-> 0]
  IN SubSeq(cbc, 1, AES_BLOCK_SIZE * (m - 1))
       \o AES_encrypt(cbc_aes_key, XorBlock(tail, last))
       \o SubSeq(last, 1, r)

\* C20 as stated: with kCtsPadding, for every plaintext of at least one full
\* block the last two blocks of the output are swapped relative to plain CBC.
C20_CtsAlwaysSwaps ==
  padding_scheme_ = kCtsPadding =>
    \A k \in OkCalls :
       Len(cbc_calls[k].plaintext) >= AES_BLOCK_SIZE =>
         Returned(cbc_calls[k]) = CtsSwapped(cbc_calls[k])

\* C20, amended: with kCtsPadding, for every plaintext of at least one full
\* block followed by a residue of 1 to 15 bytes the last two blocks of the
\* output are swapped relative to plain CBC; a plaintext of whole blocks only
\* is encrypted as plain CBC, nothing swapped.
C20_CtsSwapsWithResidue ==
  padding_scheme_ = kCtsPadding =>
    \A k \in OkCalls :
       LET call == cbc_calls[k]
           n == Len(call.plaintext)
       IN n >= AES_BLOCK_SIZE =>
            IF n % AES_BLOCK_SIZE # 0
            THEN Returned(call) = CtsSwapped(call)
            ELSE Returned(call) =
                   PlainCbc(cbc_aes_key, call.start_iv, call.plaintext)

\* A 33-byte plaintext was encrypted with kCtsPadding: its second block is
\* not the plain CBC block, of which the last byte of the output is the first
\* byte.
C20_Witness ==
  /\ padding_scheme_ = kCtsPadding
  /\ Len(cbc_calls) >= 1
  /\ cbc_calls[1].ok
  /\ Len(cbc_calls[1].plaintext) = 33
  /\ cbc_calls[1].ciphertext[33] =
       PlainCbc(cbc_aes_key, cbc_calls[1].start_iv,
                SubSeq(cbc_calls[1].plaintext, 1, 32))[17]
  /\ BlockOf(cbc_calls[1].ciphertext, 2) #
       BlockOf(PlainCbc(cbc_aes_key, cbc_calls[1].start_iv,
                        SubSeq(cbc_calls[1].plaintext, 1, 32)), 2)

\* C21: with kNoPadding the leading floor(n/16)*16 bytes of an n-byte
\* plaintext come out CBC-encrypted and the trailing n mod 16 bytes come out
\* unchanged: the output is n bytes long, and a plaintext shorter than a
\* block comes out entirely in clear.
C21_NoPaddingResidueInClear ==
  padding_scheme_ = kNoPadding =>
    \A k \in OkCalls :
      LET call == cbc_calls[k]
          n == Len(call.plaintext)
          r == n % AES_BLOCK_SIZE
          lead == (n \div AES_BLOCK_SIZE) * AES_BLOCK_SIZE
      IN /\ call.ciphertext_size = n
         /\ Len(call.ciphertext) = n
         /\ SubSeq(call.ciphertext, 1, lead)
              = PlainCbc(cbc_aes_key, call.start_iv,
                         SubSeq(call.plaintext, 1, lead))
         /\ SubSeq(call.ciphertext, lead + 1, n)
              = SubSeq(call.plaintext, lead + 1, n)
         /\ n < AES_BLOCK_SIZE => call.ciphertext = call.plaintext

\* A kNoPadding encryptor has encrypted one byte, which came out in clear,
\* and then 33 bytes: two cipher blocks that differ from the plaintext and
\* the last byte in clear.
C21_Witness ==
  /\ padding_scheme_ = kNoPadding
  /\ Len(cbc_calls) = 2
  /\ cbc_calls[1].ok /\ cbc_calls[2].ok
  /\ Len(cbc_calls[1].plaintext) = 1
  /\ cbc_calls[1].ciphertext = cbc_calls[1].plaintext
  /\ Len(cbc_calls[2].plaintext) = 33
  /\ Len(cbc_calls[2].ciphertext) = 33
  /\ cbc_calls[2].ciphertext[33] = cbc_calls[2].plaintext[33]
  /\ SubSeq(cbc_calls[2].ciphertext, 1, 32)
       # SubSeq(cbc_calls[2].plaintext, 1, 32)

\* C27: every constructed AesCbcEncryptor whose padding scheme is not
\* kNoPadding has kUseConstantIv; construction with kPkcs5Padding or
\* kCtsPadding and kDontUseConstantIv fails the CHECK and the object is never
\* used, and that is what the one-argument constructor does with every
\* padding scheme other than kNoPadding.
C27_PaddedNeedsConstantIv ==
  /\ (cbc_pc # "aborted" /\ padding_scheme_ # kNoPadding)
       => constant_iv_flag_ = kUseConstantIv
  /\ (padding_scheme_ \in {kPkcs5Padding, kCtsPadding}
        /\ constant_iv_flag_ = kDontUseConstantIv)
       => /\ cbc_pc = "aborted"
          /\ cbc_init = NoInit
          /\ cbc_calls = <<>>
  /\ \A p \in CbcPaddingScheme \ {kNoPadding} :
       CbcConstructedDefault(p) => cbc_pc = "aborted"
  /\ cbc_pc = "aborted" => padding_scheme_ # kNoPadding

\* Construction with kPkcs5Padding and kDontUseConstantIv, as the
\* one-argument constructor does it, has failed the CHECK.
C27_Witness ==
  /\ padding_scheme_ = kPkcs5Padding
  /\ constant_iv_flag_ = kDontUseConstantIv
  /\ CbcConstructedDefault(kPkcs5Padding)
  /\ cbc_pc = "aborted"

----------------------------------------------------------------------------
(* Properties of both CryptInternal *)

\* the size CryptInternal of the CBC encryptor requires for n plaintext bytes
RequiredCbcSize(n) ==
  IF padding_scheme_ = kPkcs5Padding
  THEN n + AES_BLOCK_SIZE - (n % AES_BLOCK_SIZE)
  ELSE n

\* what C28 says of the counter-mode call made by this step
CtrRoomChecked ==
  CtrEncryptStep =>
    /\ ctr_last'.called
    /\ IF ctr_last'.short
       THEN /\ ~crypt_ok'
            /\ UNCHANGED <<counter_, block_offset_, encrypted_counter_,
                           ctr_out, num_increments, ctr_calls>>
       ELSE /\ crypt_ok'
            /\ ctr_last'.exact

\* what C28 says of the CBC calls recorded
CbcRoomChecked ==
  \A k \in DOMAIN cbc_calls :
    LET call == cbc_calls[k]
    IN IF call.short
       THEN /\ ~call.ok
            /\ call.ciphertext = <<>>
            /\ call.end_iv = call.start_iv
       ELSE /\ call.ok
            /\ call.ciphertext_size = RequiredCbcSize(Len(call.plaintext))
            /\ Len(call.ciphertext) = call.ciphertext_size

\* C28: CryptInternal of the CTR and of the CBC encryptor return false,
\* write no output byte and leave the cipher state (counter and block
\* offset, chaining IV) alone when the caller's room is smaller than the
\* required size (plaintext_size for CTR, plaintext_size plus padding for
\* CBC); on success they set *ciphertext_size to exactly the required size.
C28_ShortRoomRefused ==
  [][CtrRoomChecked /\ CbcRoomChecked']_vars

\* A counter-mode call with too little room was refused after a successful
\* call that had stopped inside a keystream block.
C28_Witness ==
  /\ ctr_pc = "ready"
  /\ ctr_last.called
  /\ ctr_last.short
  /\ ~crypt_ok
  /\ ctr_calls # <<>>
  /\ block_offset_ # 0

----------------------------------------------------------------------------
(* Properties of the File API *)

====
